---- MODULE Spec2Model ----
(***************************************************************************)
(* A model of tail_tiles (src/tail_tiles.py): the multi-tile tail viewer.  *)
(* The program's state is the list of TailTile objects, the renderer's     *)
(* line count and layout, the redraw flag and the position of the main     *)
(* loop; the environment is the file system the tiles stat and read, the   *)
(* keyboard and the terminal size.                                         *)
(***************************************************************************)
EXTENDS Integers, Sequences, FiniteSets, TLC

VARIABLES
    pc,             \* position of the program: setup, init, poll, getch, refresh, render,
                    \* done (main returned 0), exit1 (main returned 1), crash (an exception
                    \* left main); call, returned for a function called on its own
    idx,            \* index (1-based) of the tile the current for-loop is at
    tiles,          \* the list of TailTile objects
    layout,         \* TileRenderer.rows, TileRenderer.cols
    initial_lines,  \* run_viewer's initial_lines
    line_count,     \* TileRenderer.line_count
    redraw,         \* main's redraw flag
    key,            \* the key the last getch() returned ("NONE" while the wait is on)
    ret,            \* the value returned by the last TailTile.update()
    fs,             \* the file system: path -> file
    fresh,          \* history, per tile: "no" when its file existed as the viewer started,
                    \* else "waiting" until an update() finds the file non-empty, then "seen"
    current,        \* history, per tile: no file change and no key action since the
                    \* update() that last read its file
    quiet,          \* history, per tile: no file change and no key action since its last update()
    lastErr,        \* history, per tile: the file-access error its last update() met:
                    \* "stat" (os.stat failed), "open" (the file could not be opened), "no"
    rendered,       \* history: render() has been called
    nenv,           \* number of file-system events so far
    call,           \* a function called on its own: its name and arguments
    result          \* what that call returned

vars == <<pc, idx, tiles, layout, initial_lines, line_count, redraw, key, ret,
          fs, fresh, current, quiet, lastErr, rendered, nenv, call, result>>

(***************************************************************************)
(* Bounds of the model.                                                    *)
(***************************************************************************)
MaxFileLines == 2
MaxMtime == 1
MaxDrift == 1
MaxEnv == 1
MaxLen == 4         \* characters of a file read on its own
MaxN == 3           \* the n of read_last_n_lines called on its own
MaxInt == 3         \* clamp's arguments are in -MaxInt..MaxInt
MaxH == 7           \* rows of the screen render() is called on by itself
MaxW == 5           \* columns of that screen

(***************************************************************************)
(* Program constants.                                                      *)
(***************************************************************************)
MinLines == 1
MaxLines == 100
DefaultLines == 10

NL == "\n"
CR == "\r"

Paths == {"a", "b"}

LAYOUTS == [c \in {"1", "2", "3", "4"} |->
              CASE c = "1" -> <<1, 1>>
                [] c = "2" -> <<2, 1>>
                [] c = "3" -> <<1, 2>>
                [] c = "4" -> <<2, 2>>]

Max(a, b) == IF a >= b THEN a ELSE b
Min(a, b) == IF a <= b THEN a ELSE b

(***************************************************************************)
(* read_last_n_lines: readlines() in text mode (universal newlines), each  *)
(* line rstrip'ed of "\n" and "\r", then the slice lines[-n:].             *)
(***************************************************************************)
RECURSIVE SplitLines(_, _, _, _)
SplitLines(d, i, cur, acc) ==
    IF i > Len(d)
    THEN IF cur = <<>> THEN acc ELSE Append(acc, cur)
    ELSE IF d[i] = NL
    THEN SplitLines(d, i + 1, <<>>, Append(acc, Append(cur, NL)))
    ELSE IF d[i] = CR
    THEN SplitLines(d, IF i < Len(d) /\ d[i + 1] = NL THEN i + 2 ELSE i + 1,
                    <<>>, Append(acc, Append(cur, NL)))
    ELSE SplitLines(d, i + 1, Append(cur, d[i]), acc)

readlines(d) == SplitLines(d, 1, <<>>, <<>>)

RECURSIVE rstrip(_)
rstrip(s) ==
    IF s # <<>> /\ s[Len(s)] \in {NL, CR}
    THEN rstrip(SubSeq(s, 1, Len(s) - 1))
    ELSE s

\* a slip: lines[:n], the first n lines
LastN_head(lines, n) == SubSeq(lines, 1, Min(n, Len(lines)))

\* lines[-n:] of Python, for n >= 0 (lines[-0:] is the whole list)
LastN(lines, n) ==
    IF n = 0 THEN lines
    ELSE SubSeq(lines, Max(Len(lines) - n, 0) + 1, Len(lines))

\* s[:k] of Python, for any integer k
SliceTo(s, k) ==
    IF k >= 0 THEN SubSeq(s, 1, Min(k, Len(s)))
    ELSE SubSeq(s, 1, Max(Len(s) + k, 0))

StatFails(f) == f.st \in {"absent", "moved", "denied"}
OpenFails(f) == f.st # "ok"

read_last_n_lines(f, n) ==
    IF OpenFails(f) THEN <<>>
    ELSE LET lines == [k \in 1..Len(readlines(f.data)) |-> rstrip(readlines(f.data)[k])]
         IN  IF lines # <<>> THEN LastN(lines, n) ELSE <<>>

\* a slip: max and min the wrong way round
clamp_swapped(value, min_val, max_val) == Min(min_val, Max(value, max_val))

\* a slip: the upper limit forgotten
clamp_no_max(value, min_val, max_val) == Max(min_val, value)

clamp(value, min_val, max_val) == Max(min_val, Min(value, max_val))

(***************************************************************************)
(* TailTile                                                                *)
(***************************************************************************)
Sentinel == <<0, 0>>

TailTile(filepath, lines) ==
    [filepath |-> filepath, lines |-> lines, content |-> <<>>, last_stat |-> Sentinel]

os_stat(f) == <<f.mtime, Len(f.data)>>

\* a slip: only the modification time is compared
update_mtime_only(t, f) ==
    IF StatFails(f)
    THEN IF t.content # <<>>
         THEN [tile |-> [t EXCEPT !.content = <<>>], ret |-> TRUE]
         ELSE [tile |-> t, ret |-> FALSE]
    ELSE IF os_stat(f)[1] # t.last_stat[1]
    THEN [tile |-> [t EXCEPT !.last_stat = os_stat(f),
                             !.content = read_last_n_lines(f, t.lines)],
          ret |-> TRUE]
    ELSE [tile |-> t, ret |-> FALSE]

\* a slip: a failed stat leaves the cache as it is
update_keeps_cache(t, f) ==
    IF StatFails(f)
    THEN [tile |-> t, ret |-> FALSE]
    ELSE IF os_stat(f) # t.last_stat
    THEN [tile |-> [t EXCEPT !.last_stat = os_stat(f),
                             !.content = read_last_n_lines(f, t.lines)],
          ret |-> TRUE]
    ELSE [tile |-> t, ret |-> FALSE]

\* a slip: the signature is not stored
update_no_store(t, f) ==
    IF StatFails(f)
    THEN IF t.content # <<>>
         THEN [tile |-> [t EXCEPT !.content = <<>>], ret |-> TRUE]
         ELSE [tile |-> t, ret |-> FALSE]
    ELSE IF os_stat(f) # t.last_stat
    THEN [tile |-> [t EXCEPT !.content = read_last_n_lines(f, t.lines)], ret |-> TRUE]
    ELSE [tile |-> t, ret |-> FALSE]

\* TailTile.update(): the tile afterwards and the value returned
update(t, f) ==
    IF StatFails(f)
    THEN IF t.content # <<>>
         THEN [tile |-> [t EXCEPT !.content = <<>>], ret |-> TRUE]
         ELSE [tile |-> t, ret |-> FALSE]
    ELSE IF os_stat(f) # t.last_stat
    THEN [tile |-> [t EXCEPT !.last_stat = os_stat(f),
                             !.content = read_last_n_lines(f, t.lines)],
          ret |-> TRUE]
    ELSE [tile |-> t, ret |-> FALSE]

get_content(t) == t.content

(***************************************************************************)
(* TileRenderer                                                            *)
(***************************************************************************)
\* stdscr.addstr(y, x, ...) raises curses.error when (y, x) is off the screen
addstr_ok(y, x, H, W) == 0 <= y /\ y < H /\ 0 <= x /\ x < W

\* the rows of the content loop of _draw_tile that are reached
ContentRows(y, h) == {row \in 0..(h - 4) : ~(y + 2 + row >= y + h - 1)}

\* _draw_tile: the strings written in the content rows of one tile; a
\* curses.error in the header or the path line leaves the tile without content
draw_content(t, y, x, h, w, H, W) ==
    IF ~(/\ addstr_ok(y, x, H, W)
         /\ addstr_ok(y + 1, x, H, W)
         /\ addstr_ok(y + 1, x + 1, H, W)
         /\ addstr_ok(y + 1, x + w - 1, H, W))
    THEN <<>>
    ELSE LET content == get_content(t)
             n == Cardinality({row \in ContentRows(y, h) : row < Len(content)})
         IN  [k \in 1..n |-> SliceTo(<<" ">> \o content[k], w - 3)]

\* a slip: no row kept for the status bar
tile_height_no_status(H, rows) == H \div rows

tile_height(H, rows) == (H - 1) \div rows
tile_width(W, cols) == W \div cols

\* TileRenderer.render: where the i-th tile (i from 1) goes, the arguments of
\* its _draw_tile call
place(i, lay, H, W) ==
    LET tile_h == tile_height(H, lay[1])
        tile_w == tile_width(W, lay[2])
        row == (i - 1) \div lay[2]
        col == (i - 1) % lay[2]
    IN  [row |-> row, col |-> col, y |-> row * tile_h, x |-> col * tile_w,
         h |-> tile_h, w |-> tile_w]

\* TileRenderer.render: per tile, what its content rows show
render(ts, lay, H, W) ==
    [i \in 1..Len(ts) |->
        LET p == place(i, lay, H, W)
        IN  draw_content(ts[i], p.y, p.x, p.h, p.w, H, W)]

\* a slip: only the first tile gets the new count
adjust_lines_first_only(lc, ts, delta) ==
    LET new == clamp(lc + delta, MinLines, MaxLines)
    IN  [line_count |-> new,
         tiles |-> [i \in 1..Len(ts) |->
                      IF i = 1 THEN [ts[i] EXCEPT !.lines = new, !.last_stat = Sentinel]
                      ELSE ts[i]]]

\* TileRenderer.adjust_lines
adjust_lines(lc, ts, delta) ==
    LET new == clamp(lc + delta, MinLines, MaxLines)
    IN  [line_count |-> new,
         tiles |-> [i \in 1..Len(ts) |->
                      [ts[i] EXCEPT !.lines = new, !.last_stat = Sentinel]]]

(***************************************************************************)
(* The environment: files, what the user types, the terminal.              *)
(***************************************************************************)
LineTexts == {<<"x">>, <<"y">>}

RECURSIVE Join(_)
Join(ls) == IF ls = <<>> THEN <<>> ELSE Head(ls) \o <<NL>> \o Join(Tail(ls))

\* the files hold up to MaxFileLines lines, no line twice (their order shows)
LineLists == {ls \in UNION {[1..n -> LineTexts] : n \in 0..MaxFileLines} :
                 \A j, k \in 1..Len(ls) : j # k => ls[j] # ls[k]}
FileDatas == {Join(ls) : ls \in LineLists}

Absent == [st |-> "absent", mtime |-> 0, data |-> <<>>]
\* when the program starts the files do not exist yet, or hold two lines and
\* can be read, or hold two lines and cannot be opened
InitialFS == {[p \in Paths |-> Absent]} \cup
             {[p \in Paths |-> [st |-> s, mtime |-> 1, data |-> Join(<<<<"x">>, <<"y">>>>)]] :
                 s \in {"ok", "noread"}}

ScreenSizes == {<<24, 80>>, <<5, 80>>, <<24, 8>>}

LayoutInputs == {"1", "4", ""}
PathAnswers == {<<>>, <<"a">>, <<"a", "b">>}
\* the character U+00B2, SUPERSCRIPT TWO
SUP2 == "SUP2"
LinesInputs == {<<>>, <<"x">>, <<"0">>, <<"2", "5", "0">>, <<SUP2>>}

Digits == {"0", "1", "2", "3", "4", "5", "6", "7", "8", "9"}
DigitVal(c) == CASE c = "0" -> 0 [] c = "1" -> 1 [] c = "2" -> 2 [] c = "3" -> 3
                 [] c = "4" -> 4 [] c = "5" -> 5 [] c = "6" -> 6 [] c = "7" -> 7
                 [] c = "8" -> 8 [] c = "9" -> 9
\* str.isdigit(): non-empty and every character a digit, which the decimal
\* digits are and superscript digits are too
isdigit(s) == s # <<>> /\ \A k \in 1..Len(s) : s[k] \in Digits \cup {SUP2}
\* int(s) raises ValueError unless every character is a decimal digit
int_raises(s) == s = <<>> \/ \E k \in 1..Len(s) : s[k] \notin Digits
RECURSIVE int(_)
int(s) == IF s = <<>> THEN 0 ELSE 10 * int(SubSeq(s, 1, Len(s) - 1)) + DigitVal(s[Len(s)])

\* prompt_setup: the layout, the paths and the line count; none: it returns
\* None; raises: int() raises ValueError, which the except clause of l.224
\* does not catch
prompt_setup(choice, answers, lines_input) ==
    LET lay == LAYOUTS[IF choice \in DOMAIN LAYOUTS THEN choice ELSE "1"]
        max_files == lay[1] * lay[2]
        paths == SubSeq(answers, 1, Min(max_files, Len(answers)))
        raises == paths # <<>> /\ isdigit(lines_input) /\ int_raises(lines_input)
        lines == IF isdigit(lines_input) /\ ~int_raises(lines_input)
                 THEN int(lines_input) ELSE DefaultLines
    IN  [none |-> paths = <<>>, raises |-> raises, paths |-> paths, layout |-> lay,
         lines |-> clamp(lines, MinLines, MaxLines)]

(***************************************************************************)
(* The state machine.                                                      *)
(***************************************************************************)
\* no function is called on its own while main() runs
NoArgs == [fn |-> "none", f |-> Absent, n |-> 0, v |-> 0, lo |-> 0, hi |-> 0,
           choice |-> "", answers |-> <<>>, text |-> <<>>, H |-> 0, W |-> 0]
NoCall == NoArgs
NoResult == [done |-> FALSE, lines |-> <<>>, num |-> 0, none |-> FALSE, raised |-> FALSE,
             rects |-> <<>>]

Init ==
    /\ pc = "setup"
    /\ idx = 1
    /\ tiles = <<>>
    /\ layout = <<1, 1>>
    /\ initial_lines = DefaultLines
    /\ line_count = DefaultLines
    /\ redraw = FALSE
    /\ key = "NONE"
    /\ ret = FALSE
    /\ fs \in InitialFS
    /\ fresh = <<>>
    /\ current = <<>>
    /\ quiet = <<>>
    /\ lastErr = <<>>
    /\ rendered = FALSE
    /\ nenv = 0
    /\ call = NoCall
    /\ result = NoResult

N == Len(tiles)

config == <<layout, initial_lines>>
history == <<fresh, current, quiet, lastErr>>
budget == <<nenv>>
pure == <<call, result>>

\* main(): prompt_setup() returned None
SetupAbort ==
    /\ pc = "setup"
    /\ pc' = "exit1"
    /\ UNCHANGED <<idx, tiles, line_count, redraw, key, ret, fs, rendered,
                   config, history, budget>>
    /\ UNCHANGED pure

\* main(): prompt_setup() raised; the exception ends the process
SetupCrash ==
    /\ pc = "setup"
    /\ \E choice \in LayoutInputs, answers \in PathAnswers, lines_input \in LinesInputs :
         prompt_setup(choice, answers, lines_input).raises
    /\ pc' = "crash"
    /\ UNCHANGED <<idx, tiles, line_count, redraw, key, ret, fs, rendered,
                   config, history, budget>>
    /\ UNCHANGED pure

\* main(): prompt_setup() returned, run_viewer builds the tiles and the renderer.
\* The files no tile watches are left out of the file system from here on.
SetupStart ==
    /\ pc = "setup"
    /\ \E choice \in LayoutInputs, answers \in PathAnswers, lines_input \in LinesInputs :
         LET r == prompt_setup(choice, answers, lines_input)
         IN  /\ ~r.none /\ ~r.raises
             /\ tiles' = [i \in 1..Len(r.paths) |-> TailTile(r.paths[i], r.lines)]
             /\ layout' = r.layout
             /\ initial_lines' = r.lines
             /\ line_count' = IF r.paths # <<>> THEN r.lines ELSE DefaultLines
             /\ fresh' = [i \in 1..Len(r.paths) |->
                             IF fs[r.paths[i]].st = "absent" THEN "waiting" ELSE "no"]
             /\ current' = [i \in 1..Len(r.paths) |-> FALSE]
             /\ quiet' = [i \in 1..Len(r.paths) |-> FALSE]
             /\ lastErr' = [i \in 1..Len(r.paths) |-> "no"]
    /\ fs' = [p \in Paths |-> IF \E i \in 1..Len(tiles') : tiles'[i].filepath = p
                                THEN fs[p] ELSE Absent]
    /\ pc' = "init"
    /\ idx' = 1
    /\ UNCHANGED <<redraw, key, ret, rendered, budget>>
    /\ UNCHANGED pure

\* one tile.update() of a for-loop over the tiles; reset: the 'r' branch first
\* sets tile._last_stat = (0, 0)
UpdateTile(i, reset) ==
    LET t0 == tiles[i]
        t == IF reset THEN [t0 EXCEPT !.last_stat = Sentinel] ELSE t0
        f == fs[t.filepath]
        u == update(t, f)
    IN  /\ tiles' = [tiles EXCEPT ![i] = u.tile]
        /\ ret' = u.ret
        /\ fresh' = [fresh EXCEPT ![i] =
                        IF @ = "waiting" /\ ~StatFails(f) /\ f.data # <<>> THEN "seen" ELSE @]
        /\ current' = [current EXCEPT ![i] =
                          IF StatFails(f) THEN FALSE
                          ELSE IF os_stat(f) # t.last_stat THEN ~OpenFails(f)
                          ELSE @]
        /\ quiet' = [quiet EXCEPT ![i] = TRUE]
        /\ lastErr' = [lastErr EXCEPT ![i] =
                          IF StatFails(f) THEN "stat"
                          ELSE IF os_stat(f) # t.last_stat /\ OpenFails(f) THEN "open"
                          ELSE "no"]

\* run_viewer: the initial "for tile in tiles: tile.update()", then redraw = True
InitUpdate ==
    /\ pc = "init"
    /\ UpdateTile(idx, FALSE)
    /\ IF idx < N
       THEN /\ idx' = idx + 1
            /\ UNCHANGED <<pc, redraw>>
       ELSE /\ idx' = 1
            /\ pc' = "poll"
            /\ redraw' = TRUE
    /\ UNCHANGED <<line_count, key, fs, rendered, config, budget>>
    /\ UNCHANGED pure

\* a slip: "redraw = tile.update()", which forgets an earlier tile's change
PollUpdate_overwrite ==
    /\ pc = "poll"
    /\ UpdateTile(idx, FALSE)
    /\ redraw' = ret'
    /\ IF idx < N
       THEN idx' = idx + 1 /\ pc' = pc /\ key' = key
       ELSE idx' = 1 /\ pc' = "getch" /\ key' = "NONE"
    /\ UNCHANGED <<line_count, fs, rendered, config, budget>>
    /\ UNCHANGED pure

\* the loop's "for tile in tiles: if tile.update(): redraw = True"
PollUpdate ==
    /\ pc = "poll"
    /\ UpdateTile(idx, FALSE)
    /\ redraw' = (redraw \/ ret')
    /\ IF idx < N
       THEN idx' = idx + 1 /\ pc' = pc /\ key' = key
       ELSE idx' = 1 /\ pc' = "getch" /\ key' = "NONE"
    /\ UNCHANGED <<line_count, fs, rendered, config, budget>>
    /\ UNCHANGED pure

\* a slip: 'q' only asks for one more redraw
KeyQuit_redraws ==
    /\ pc = "getch"
    /\ key' = "q"
    /\ pc' = "render"
    /\ ret' = FALSE
    /\ UNCHANGED <<idx, tiles, line_count, redraw, fs, rendered, config, history, budget>>
    /\ UNCHANGED pure

\* key == ord('q'): break
KeyQuit ==
    /\ pc = "getch"
    /\ key' = "q"
    /\ pc' = "done"
    /\ ret' = FALSE
    /\ UNCHANGED <<idx, tiles, line_count, redraw, fs, rendered, config, history, budget>>
    /\ UNCHANGED pure

\* '+', '=' : adjust_lines(1); '-', '_' : adjust_lines(-1); then redraw = True
KeyAdjust ==
    /\ pc = "getch"
    /\ \E k \in {"+", "=", "-", "_"} :
         LET a == adjust_lines(line_count, tiles, IF k \in {"+", "="} THEN 1 ELSE -1)
         IN  /\ a.line_count - initial_lines \in (0 - MaxDrift)..MaxDrift
             /\ key' = k
             /\ line_count' = a.line_count
             /\ tiles' = a.tiles
    /\ quiet' = [i \in 1..N |-> FALSE]
    /\ current' = [i \in 1..N |-> FALSE]
    /\ redraw' = TRUE
    /\ pc' = "render"
    /\ ret' = FALSE
    /\ UNCHANGED <<idx, fs, rendered, config, fresh, lastErr, budget>>
    /\ UNCHANGED pure

\* key == ord('r'): the loop of the 'r' branch starts
KeyRefresh ==
    /\ pc = "getch"
    /\ key' = "r"
    /\ pc' = "refresh"
    /\ idx' = 1
    /\ quiet' = [i \in 1..N |-> FALSE]
    /\ current' = [i \in 1..N |-> FALSE]
    /\ ret' = FALSE
    /\ UNCHANGED <<tiles, line_count, redraw, fs, rendered, config, fresh, lastErr, budget>>
    /\ UNCHANGED pure

\* the 'r' branch: "tile._last_stat = (0, 0); tile.update()" per tile, then redraw = True
RefreshUpdate ==
    /\ pc = "refresh"
    /\ UpdateTile(idx, TRUE)
    /\ IF idx < N
       THEN /\ idx' = idx + 1
            /\ UNCHANGED <<pc, redraw>>
       ELSE /\ idx' = 1
            /\ redraw' = TRUE
            /\ pc' = "render"
    /\ UNCHANGED <<line_count, key, fs, rendered, config, budget>>
    /\ UNCHANGED pure

\* key == curses.KEY_RESIZE: redraw = True
KeyResize ==
    /\ pc = "getch"
    /\ key' = "RESIZE"
    /\ redraw' = TRUE
    /\ pc' = "render"
    /\ ret' = FALSE
    /\ UNCHANGED <<idx, tiles, line_count, fs, rendered, config, history, budget>>
    /\ UNCHANGED pure

\* any other key, or no key within the 100 ms wait (getch() returns -1)
KeyOther ==
    /\ pc = "getch"
    /\ \E k \in {"x", "NONE"} : key' = k
    /\ pc' = IF redraw THEN "render" ELSE "poll"
    /\ ret' = FALSE
    /\ UNCHANGED <<idx, tiles, line_count, redraw, fs, rendered, config, history, budget>>
    /\ UNCHANGED pure

\* "if redraw: renderer.render(); redraw = False"; what render() draws is
\* render(tiles, layout, h, w) for the screen size (h, w) it finds
Render ==
    /\ pc = "render"
    /\ redraw' = FALSE
    /\ rendered' = TRUE
    /\ pc' = "poll"
    /\ UNCHANGED <<idx, tiles, line_count, key, ret, fs, config, history, budget>>
    /\ UNCHANGED pure

(***************************************************************************)
(* File-system events.                                                     *)
(***************************************************************************)
\* A file event is taken before a loop over the tiles starts or during the wait
\* for a key: between two updates of one loop it reaches no other state, the
\* update of one tile reading only that tile's file.
Running == (pc \in {"init", "poll"} /\ idx = 1) \/ pc = "getch"

Watched == {tiles[i].filepath : i \in 1..N}

Touched(h, p) == [i \in 1..N |-> h[i] /\ tiles[i].filepath # p]

EnvFrame == UNCHANGED <<pc, idx, tiles, line_count, redraw, key, ret, rendered,
                        config, fresh, lastErr>>

\* the file is created or rewritten, with any modification time
FileWrite ==
    /\ Running /\ nenv < MaxEnv
    /\ \E p \in Watched, d \in FileDatas, m \in 0..MaxMtime :
         /\ fs' = [fs EXCEPT ![p] = [st |-> IF @.st \in {"absent", "moved"} THEN "ok" ELSE @.st,
                                     mtime |-> m, data |-> d]]
         /\ fs' # fs
         /\ quiet' = Touched(quiet, p)
         /\ current' = Touched(current, p)
    /\ nenv' = nenv + 1
    /\ EnvFrame
    /\ UNCHANGED pure

\* a file that was renamed away is renamed back, as it was; this is no event
\* of the nenv counted ones: a file comes back once per renaming away
FileReappear ==
    /\ Running
    /\ \E p \in Watched :
         /\ fs[p].st = "moved"
         /\ fs' = [fs EXCEPT ![p].st = "ok"]
         /\ quiet' = Touched(quiet, p)
         /\ current' = Touched(current, p)
    /\ UNCHANGED nenv
    /\ EnvFrame
    /\ UNCHANGED pure

\* the file is deleted, or renamed away
FileDelete ==
    /\ Running /\ nenv < MaxEnv
    /\ \E p \in Watched :
         /\ fs[p].st \notin {"absent", "moved"}
         /\ \/ fs' = [fs EXCEPT ![p] = Absent]
            \/ fs[p].st = "ok" /\ fs' = [fs EXCEPT ![p].st = "moved"]
         /\ quiet' = Touched(quiet, p)
         /\ current' = Touched(current, p)
    /\ nenv' = nenv + 1
    /\ EnvFrame
    /\ UNCHANGED pure

\* the permissions change: stat fails ("denied"), open fails ("noread"), or neither
FileChmod ==
    /\ Running /\ nenv < MaxEnv
    /\ \E p \in Watched, s \in {"ok", "noread", "denied"} :
         /\ fs[p].st \notin {"absent", "moved", s}
         /\ fs' = [fs EXCEPT ![p].st = s]
         /\ quiet' = Touched(quiet, p)
         /\ current' = Touched(current, p)
    /\ nenv' = nenv + 1
    /\ EnvFrame
    /\ UNCHANGED pure

Next ==
    \/ SetupAbort
    \/ SetupCrash
    \/ SetupStart
    \/ InitUpdate
    \/ PollUpdate
    \/ KeyQuit
    \/ KeyAdjust
    \/ KeyRefresh
    \/ RefreshUpdate
    \/ KeyResize
    \/ KeyOther
    \/ Render
    \/ FileWrite
    \/ FileReappear
    \/ FileDelete
    \/ FileChmod

Spec == Init /\ [][Next]_vars

\* the loop does not stop by itself: an update, the handling of a key and a
\* render that can be taken are taken (getch() returns after 100 ms at most)
LoopStep ==
    \/ InitUpdate
    \/ PollUpdate
    \/ KeyQuit
    \/ KeyAdjust
    \/ KeyRefresh
    \/ RefreshUpdate
    \/ KeyResize
    \/ KeyOther
    \/ Render
FairSpec == Spec /\ WF_vars(LoopStep)

(***************************************************************************)
(* The functions of the module called on their own: read_last_n_lines on   *)
(* any small file, clamp on any small integers.                            *)
(***************************************************************************)
Chars == {"x", NL, CR}
Contents == UNION {[1..n -> Chars] : n \in 0..MaxLen}
PureFiles == {[st |-> "ok", mtime |-> 0, data |-> d] : d \in Contents} \cup
             {[st |-> s, mtime |-> 0, data |-> <<"x", NL>>] : s \in {"noread", "denied"}} \cup
             {Absent}
ReadCalls == {[NoArgs EXCEPT !.fn = "read_last_n_lines", !.f = f, !.n = n] :
                 f \in PureFiles, n \in 1..MaxN}
ClampCalls == {[NoArgs EXCEPT !.fn = "clamp", !.v = v, !.lo = lo, !.hi = hi] :
                  v \in (0 - MaxInt)..MaxInt,
                  lo \in (0 - MaxInt)..MaxInt, hi \in (0 - MaxInt)..MaxInt}
\* what is typed at the "Lines to show" prompt
PromptTexts == LinesInputs \cup {<<"7">>, <<"1", "0", "0">>, <<"1", "0", "1">>,
                                 <<"-", "1">>, <<"1", "x">>, <<"1", SUP2>>}
PromptCalls == {[NoArgs EXCEPT !.fn = "prompt_setup", !.choice = c, !.answers = a, !.text = t] :
                   c \in DOMAIN LAYOUTS \cup {"", "5"}, a \in PathAnswers, t \in PromptTexts}

\* the paths typed at setup, up to the four of the 2x2 grid
GridAnswers == {<<"a">>, <<"a", "b">>, <<"a", "b", "a">>, <<"a", "b", "a", "b">>}
\* render() of a viewer set up with this layout and these paths, on a screen
\* of H rows and W columns
RenderCalls == {[NoArgs EXCEPT !.fn = "render", !.choice = c, !.answers = a, !.H = h, !.W = w] :
                   c \in DOMAIN LAYOUTS, a \in GridAnswers, h \in 1..MaxH, w \in 1..MaxW}

PureInit ==
    /\ pc = "call"
    /\ idx = 1
    /\ tiles = <<>>
    /\ layout = <<1, 1>>
    /\ initial_lines = DefaultLines
    /\ line_count = DefaultLines
    /\ redraw = FALSE
    /\ key = "NONE"
    /\ ret = FALSE
    /\ fs = [p \in Paths |-> Absent]
    /\ fresh = <<>>
    /\ current = <<>>
    /\ quiet = <<>>
    /\ lastErr = <<>>
    /\ rendered = FALSE
    /\ nenv = 0
    /\ call \in ReadCalls \cup ClampCalls \cup PromptCalls \cup RenderCalls
    /\ result = NoResult

PureFrame == UNCHANGED <<idx, tiles, layout, initial_lines, line_count, redraw, key, ret,
                         fs, fresh, current, quiet, lastErr, rendered, nenv, call>>

CallReadLastN ==
    /\ pc = "call" /\ call.fn = "read_last_n_lines"
    /\ result' = [NoResult EXCEPT !.done = TRUE, !.lines = read_last_n_lines(call.f, call.n)]
    /\ pc' = "returned"
    /\ PureFrame

CallClamp ==
    /\ pc = "call" /\ call.fn = "clamp"
    /\ result' = [NoResult EXCEPT !.done = TRUE, !.num = clamp(call.v, call.lo, call.hi)]
    /\ pc' = "returned"
    /\ PureFrame

\* prompt_setup() with these answers: the paths in lines, the line count in num
CallPromptSetup ==
    /\ pc = "call" /\ call.fn = "prompt_setup"
    /\ LET r == prompt_setup(call.choice, call.answers, call.text)
       IN  result' = [NoResult EXCEPT !.done = TRUE, !.none = r.none, !.raised = r.raises,
                                      !.lines = IF r.raises THEN <<>> ELSE r.paths,
                                      !.num = IF r.none \/ r.raises THEN 0 ELSE r.lines]
    /\ pc' = "returned"
    /\ PureFrame

\* render() on the tiles prompt_setup() and run_viewer make of the answers
CallRender ==
    /\ pc = "call" /\ call.fn = "render"
    /\ LET r == prompt_setup(call.choice, call.answers, <<>>)
       IN  result' = [NoResult EXCEPT !.done = TRUE, !.lines = r.paths,
                         !.rects = [i \in 1..Len(r.paths) |-> place(i, r.layout, call.H, call.W)]]
    /\ pc' = "returned"
    /\ PureFrame

PureNext ==
    \/ CallRender
    \/ CallReadLastN
    \/ CallClamp
    \/ CallPromptSetup

PureSpec == PureInit /\ [][PureNext]_vars

(***************************************************************************)
(* What the claims speak of.                                               *)
(***************************************************************************)
\* the lines of a file: the texts that end at its k-th newline
NewlineAt(d) == {k \in 1..Len(d) : d[k] = NL}
KthNewline(d, k) == CHOOSE q \in NewlineAt(d) : Cardinality({r \in NewlineAt(d) : r <= q}) = k
FileLines(d) ==
    [k \in 1..Cardinality(NewlineAt(d)) |->
        SubSeq(d, IF k = 1 THEN 1 ELSE KthNewline(d, k - 1) + 1, KthNewline(d, k) - 1)]

\* the last min(n, number of lines) lines of a file, in the file's order
ExpectedTail(d, n) ==
    LET ls == FileLines(d)
        m == Min(n, Len(ls))
    IN  [k \in 1..m |-> ls[Len(ls) - m + k]]

FileOf(i) == fs[tiles[i].filepath]

\* this step is a tile.update() of tile i
UpdateStep(i) ==
    /\ pc \in {"init", "poll", "refresh"}
    /\ idx = i
    /\ <<pc, idx>>' # <<pc, idx>>

Started == pc \in {"init", "poll", "getch", "refresh", "render", "done"}

AdjustKeys == {"+", "=", "-", "_"}

\* what render() shows in the content rows of tile i on a screen of that size
Display(i, size) == render(tiles, layout, size[1], size[2])[i]

\* the lines as a tile writes them: one space, then the text
Shown(lines) == [k \in 1..Len(lines) |-> <<" ">> \o lines[k]]

\* the first rows of them that a tile of height h and width w >= 3 has room
\* for, each cut to w - 3 characters
Fitting(lines, h, w) ==
    [k \in 1..Min(Len(lines), Max(h - 3, 0)) |->
        SubSeq(Shown(lines)[k], 1, Min(w - 3, Len(Shown(lines)[k])))]

(***************************************************************************)
(* C1: for a tile whose file did not exist when the viewer started, the    *)
(* first update() that finds the file created and written (non-empty, and  *)
(* open to reading) returns changed and leaves the cache equal to the last *)
(* min(lines, number of lines) lines of the file: the tile is populated by *)
(* the next poll.                                                          *)
(***************************************************************************)
C1_FirstPollPopulates ==
    [][\A i \in 1..N :
         (UpdateStep(i) /\ fresh[i] = "waiting"
            /\ FileOf(i).st = "ok" /\ FileOf(i).data # <<>>)
         => /\ ret'
            /\ tiles'[i].content = ExpectedTail(FileOf(i).data, tiles[i].lines)
            /\ tiles'[i].content # <<>>]_vars

\* the first poll of the loop has just found the file, created after the
\* initial read, and filled the tile
C1_Witness ==
    /\ N = 1 /\ pc = "getch" /\ ~rendered /\ ret
    /\ fresh[1] = "seen"
    /\ tiles[1].content # <<>>
    /\ tiles[1].content = ExpectedTail(FileOf(1).data, tiles[1].lines)

(***************************************************************************)
(* C2, as claimed: when render() follows the poll that read the file's     *)
(* current state, the tile displays exactly the last min(N, L) lines of    *)
(* the file in order, on every screen size.                                *)
(***************************************************************************)
C2_AllLinesOnEveryScreen ==
    pc = "render" =>
       \A i \in 1..N : \A size \in ScreenSizes :
          current[i] =>
             Display(i, size) = Shown(ExpectedTail(FileOf(i).data, tiles[i].lines))

(***************************************************************************)
(* C2, amended: when render() follows the poll that read the file's        *)
(* current state, a tile of height h = (H - 1) div rows and width          *)
(* w = W div cols displays the first min(min(N, L), max(h - 3, 0)) of the  *)
(* last min(N, L) lines of the file, in order, each after one space and    *)
(* cut to w - 3 characters; it displays them all when h >= min(N, L) + 3.  *)
(***************************************************************************)
C2_LinesThatFit ==
    pc = "render" =>
       \A i \in 1..N : \A size \in ScreenSizes :
          current[i] =>
             LET h == (size[1] - 1) \div layout[1]
                 w == size[2] \div layout[2]
                 tail == ExpectedTail(FileOf(i).data, tiles[i].lines)
             IN  /\ Display(i, size) = Fitting(tail, h, w)
                 /\ (h >= Len(tail) + 3 /\ w >= 5) => Display(i, size) = Shown(tail)

\* render() is about to draw a tile that holds two lines of its file and, on
\* the screen of 5 rows, has no room for both
C2_Witness ==
    /\ pc = "render"
    /\ current[1]
    /\ Len(ExpectedTail(FileOf(1).data, tiles[1].lines)) = 2
    /\ Len(Display(1, <<5, 80>>)) < 2
    /\ Display(1, <<24, 80>>) = Shown(ExpectedTail(FileOf(1).data, tiles[1].lines))

(***************************************************************************)
(* C3: when the stat of a tile's file fails (the file was deleted), the    *)
(* update() of that tile returns changed and empties the cache if the      *)
(* cache was non-empty, returns unchanged with the cache still empty       *)
(* otherwise; the loop goes on and no other tile changes.                  *)
(***************************************************************************)
C3_DeletedFileClearsTile ==
    [][\A i \in 1..N :
         (UpdateStep(i) /\ StatFails(FileOf(i)))
         => /\ ret' = (tiles[i].content # <<>>)
            /\ tiles'[i].content = <<>>
            /\ tiles'[i].lines = tiles[i].lines
            /\ pc' \in {"init", "poll", "getch", "refresh", "render"}
            /\ \A j \in 1..N : j # i => tiles'[j] = tiles[j]]_vars

\* the first tile's file was deleted and its poll has just emptied the tile,
\* while the second tile still holds its lines
C3_Witness ==
    /\ N = 2 /\ pc = "poll" /\ idx = 2 /\ ret
    /\ nenv = 1 /\ FileOf(1).st = "absent"
    /\ tiles[1].content = <<>>
    /\ tiles[2].content # <<>>

(***************************************************************************)
(* C4: an update() that follows another update() of the same tile with no  *)
(* change of the file and no key action in between returns unchanged and   *)
(* leaves the cache and the change signature as they were.                 *)
(***************************************************************************)
C4_UpdateIdempotent ==
    [][\A i \in 1..N :
         (UpdateStep(i) /\ quiet[i])
         => /\ ~ret'
            /\ tiles'[i].content = tiles[i].content
            /\ tiles'[i].last_stat = tiles[i].last_stat]_vars

\* the first poll of the loop came right after the initial read, with nothing
\* in between, and returned unchanged
C4_Witness ==
    /\ N = 1 /\ pc = "getch" /\ ~rendered /\ nenv = 0
    /\ quiet[1] /\ ~ret
    /\ tiles[1].content # <<>>

(***************************************************************************)
(* C5, as claimed: the update() that 'r' runs on a tile whose file can be  *)
(* stat'ed (and read) re-reads the file and leaves the cache equal to the  *)
(* file's current tail, whatever the file's (modification time, size).     *)
(***************************************************************************)
C5_RefreshRereads ==
    [][\A i \in 1..N :
         (pc = "refresh" /\ UpdateStep(i) /\ FileOf(i).st = "ok")
         => tiles'[i].content = ExpectedTail(FileOf(i).data, tiles[i].lines)]_vars

(***************************************************************************)
(* C6: once the viewer has started the line count is in 1..100; '+' and    *)
(* '=' add one to it and '-' and '_' take one from it, except that it      *)
(* stays at 100 and at 1.                                                  *)
(***************************************************************************)
C6_LineCountClamped ==
    [][/\ Started' => line_count' \in 1..100
       /\ (pc = "getch" /\ pc' # "getch" /\ key' \in {"+", "="})
             => line_count' = IF line_count = 100 THEN 100 ELSE line_count + 1
       /\ (pc = "getch" /\ pc' # "getch" /\ key' \in {"-", "_"})
             => line_count' = IF line_count = 1 THEN 1 ELSE line_count - 1]_vars

\* '+' was the first key of a session started with 100 lines: still 100
C6_Witness ==
    /\ pc = "render" /\ ~rendered
    /\ key \in {"+", "="}
    /\ initial_lines = 100 /\ line_count = 100

(***************************************************************************)
(* C7, as claimed: adjust_lines sets every tile's line count to the new    *)
(* count and every change signature to the sentinel and touches no cache;  *)
(* the next update() of each tile whose file exists then re-reads the      *)
(* file, returns changed and leaves the cache equal to the last            *)
(* min(new count, number of lines) lines.                                  *)
(***************************************************************************)
C7_AdjustThenReread ==
    [][/\ (pc = "getch" /\ pc' # "getch" /\ key' \in AdjustKeys)
             => \A i \in 1..N : /\ tiles'[i].lines = line_count'
                                /\ tiles'[i].last_stat = Sentinel
                                /\ tiles'[i].content = tiles[i].content
       /\ \A i \in 1..N :
             (pc = "poll" /\ key \in AdjustKeys /\ UpdateStep(i) /\ FileOf(i).st = "ok")
             => /\ ret'
                /\ tiles'[i].content = ExpectedTail(FileOf(i).data, line_count)]_vars

(***************************************************************************)
(* C8, as claimed: in every state of the running viewer, the states in     *)
(* which render() is called among them, each tile's cache is no longer     *)
(* than the tile's line count.                                             *)
(***************************************************************************)
C8_CacheWithinCount ==
    Started => \A i \in 1..N : Len(tiles[i].content) <= tiles[i].lines

(***************************************************************************)
(* C9, as claimed: an update() that meets a file-access error leaves the   *)
(* cache empty, and once the error is gone the next update() fills the     *)
(* cache with the file's tail, also when the file's (modification time,    *)
(* size) is what it was.                                                   *)
(***************************************************************************)
C9_RetryAfterError ==
    [][\A i \in 1..N :
         /\ (UpdateStep(i) /\ lastErr'[i] # "no") => tiles'[i].content = <<>>
         /\ (UpdateStep(i) /\ lastErr[i] # "no" /\ FileOf(i).st = "ok")
               => tiles'[i].content = ExpectedTail(FileOf(i).data, tiles[i].lines)]_vars

(***************************************************************************)
(* C10, as claimed: a run that entered Running has called render() at      *)
(* least once when it reaches Terminated, whatever the first key is.       *)
(***************************************************************************)
C10_RenderBeforeDone ==
    pc = "done" => rendered

(***************************************************************************)
(* C11, as claimed: the process goes Setup -> Running -> Terminated only.  *)
(* Setup ends either with exit code 1 and no viewer (blank first path,     *)
(* interrupt, end of input) or with the viewer started on between 1 and    *)
(* rows x columns paths; the viewer is left with exit code 0, and only by  *)
(* the key 'q'; nothing leads back to Setup.                               *)
(***************************************************************************)
C11_SetupRunningTerminated ==
    [][/\ pc = "setup" => pc' \in {"exit1", "init"}
       /\ pc' = "exit1" => (pc = "setup" /\ tiles' = <<>> /\ ~rendered')
       /\ (pc = "setup" /\ pc' = "init")
             => Len(tiles') \in 1..(layout'[1] * layout'[2])
       /\ pc' = "done" => (pc = "getch" /\ key' = "q")
       /\ Started => pc' \in {"init", "poll", "getch", "refresh", "render", "done"}]_vars

(***************************************************************************)
(* The records of a file as C12 speaks of them: the texts between the      *)
(* newline characters, a last one without a newline included, each with    *)
(* its trailing '\n' and '\r' characters taken off.                        *)
(***************************************************************************)
RecordCount(d) ==
    Cardinality(NewlineAt(d)) + (IF d # <<>> /\ d[Len(d)] # NL THEN 1 ELSE 0)
RecordAt(d, k) ==
    SubSeq(d, IF k = 1 THEN 1 ELSE KthNewline(d, k - 1) + 1,
              IF k <= Cardinality(NewlineAt(d)) THEN KthNewline(d, k) - 1 ELSE Len(d))
StripEnd(r) ==
    LET keep == {k \in 1..Len(r) : r[k] \notin {NL, CR}}
    IN  SubSeq(r, 1, IF keep = {} THEN 0 ELSE CHOOSE k \in keep : \A j \in keep : j <= k)
Records(d) == [k \in 1..RecordCount(d) |-> StripEnd(RecordAt(d, k))]
LastRecords(d, n) ==
    [k \in 1..Min(n, RecordCount(d)) |->
        Records(d)[RecordCount(d) - Min(n, RecordCount(d)) + k]]

(***************************************************************************)
(* C12, as claimed: read_last_n_lines(path, n), for every file content and *)
(* every n >= 1, returns the last min(n, number of records) records of the *)
(* file in order, trailing '\n' and '\r' stripped, and the empty sequence  *)
(* for an empty file, a missing path or a path that cannot be opened.      *)
(***************************************************************************)
C12_LastRecords ==
    (pc = "returned" /\ call.fn = "read_last_n_lines") =>
        result.lines = IF call.f.st = "ok" THEN LastRecords(call.f.data, call.n) ELSE <<>>

(***************************************************************************)
(* C13: clamp(v, lo, hi), for all integers v and all lo <= hi, returns v   *)
(* if lo <= v <= hi, lo if v < lo and hi if v > hi.                        *)
(***************************************************************************)
C13_Clamp ==
    (pc = "returned" /\ call.fn = "clamp" /\ call.lo <= call.hi) =>
        result.num = IF call.v < call.lo THEN call.lo
                     ELSE IF call.v > call.hi THEN call.hi
                     ELSE call.v

\* clamp has returned the upper limit for a value above it
C13_Witness ==
    /\ pc = "returned" /\ call.fn = "clamp"
    /\ call.lo < call.hi /\ call.v > call.hi
    /\ result.done /\ result.num = call.hi

(***************************************************************************)
(* C14, as claimed: for every text entered at the "lines to show" prompt   *)
(* setup completes without raising, and the initial line count is 10 if    *)
(* the text is blank or not a number, otherwise the number entered clamped *)
(* to [1, 100]; in all cases it is in [1, 100].                            *)
(***************************************************************************)
C14_LinesPrompt ==
    (pc = "returned" /\ call.fn = "prompt_setup" /\ ~result.none) =>
        /\ ~result.raised
        /\ result.num \in 1..100
        /\ (call.text = <<>> \/ \E k \in 1..Len(call.text) : call.text[k] \notin Digits \cup {SUP2})
              => result.num = 10
        /\ (call.text # <<>> /\ \A k \in 1..Len(call.text) : call.text[k] \in Digits)
              => result.num = IF int(call.text) < 1 THEN 1
                              ELSE IF int(call.text) > 100 THEN 100
                              ELSE int(call.text)

RedrawKeys == AdjustKeys \cup {"r", "RESIZE"}

(***************************************************************************)
(* C15: in each iteration of the loop every tile is polled, whatever the   *)
(* earlier tiles reported, and a redraw is pending after the polls exactly *)
(* if one was pending before or a tile reported changed; render() is       *)
(* called in the iteration exactly if the key read is not 'q' and a redraw *)
(* was pending or the key is one of '+', '=', '-', '_', 'r' and the resize *)
(* signal; render() clears the pending flag; any other key, and no key,    *)
(* changes no tile and no line count.                                      *)
(***************************************************************************)
C15_PollAllRenderIfPending ==
    [][/\ pc = "poll" =>
            /\ pc' \in {"poll", "getch"}
            /\ <<pc, idx>>' # <<pc, idx>> =>
                  /\ redraw' = (redraw \/ ret')
                  /\ IF idx < N THEN pc' = "poll" /\ idx' = idx + 1 ELSE pc' = "getch"
       /\ (pc = "getch" /\ pc' # "getch") =>
            /\ (pc' \in {"render", "refresh"}) = (key' # "q" /\ (redraw \/ key' \in RedrawKeys))
            /\ pc' \in {"render", "refresh", "poll", "done"}
            /\ key' \notin RedrawKeys \cup {"q"} =>
                  (tiles' = tiles /\ line_count' = line_count /\ redraw' = redraw)
       /\ pc = "refresh" => pc' \in {"refresh", "render"}
       /\ pc = "render" => (pc' = "poll" /\ ~redraw' /\ rendered')
       /\ rendered' # rendered => pc = "render"]_vars

\* in an iteration after the first render the second tile was polled after the
\* first, one of them reported changed, the key was none of the named ones,
\* and render() is about to be called
C15_Witness ==
    /\ N = 2 /\ pc = "render" /\ rendered /\ redraw
    /\ key \in {"x", "NONE"}
    /\ nenv = 1

Cells(r) == (r.y..(r.y + r.h - 1)) \X (r.x..(r.x + r.w - 1))

(***************************************************************************)
(* C17: for every screen size (h, w), every layout and every tile list     *)
(* setup produces, render() gives tile i (from 0) the row i div columns,   *)
(* the column i mod columns, the origin (row * tile_h, column * tile_w)    *)
(* and the size tile_h = (h - 1) div rows by tile_w = w div columns; then  *)
(* row < rows, the rectangles are pairwise disjoint, lie inside the screen *)
(* and leave the last screen row to the status bar.                        *)
(***************************************************************************)
C17_TilesInGrid ==
    (pc = "returned" /\ call.fn = "render") =>
        LET rows == LAYOUTS[call.choice][1]
            cols == LAYOUTS[call.choice][2]
            r == result.rects
        IN  /\ Len(r) \in 1..(rows * cols)
            /\ \A i \in 1..Len(r) :
                  /\ r[i].row = (i - 1) \div cols /\ r[i].col = (i - 1) % cols
                  /\ r[i].h = (call.H - 1) \div rows /\ r[i].w = call.W \div cols
                  /\ r[i].y = r[i].row * r[i].h /\ r[i].x = r[i].col * r[i].w
                  /\ r[i].row < rows
                  /\ Cells(r[i]) \subseteq (0..(call.H - 2)) \X (0..(call.W - 1))
            /\ \A i, j \in 1..Len(r) : i # j => Cells(r[i]) \cap Cells(r[j]) = {}

\* four tiles in the 2x2 grid of a screen of 7 rows and 5 columns, each of
\* 3 rows and 2 columns
C17_Witness ==
    /\ pc = "returned" /\ call.fn = "render" /\ call.choice = "4"
    /\ call.H = 7 /\ call.W = 5
    /\ Len(result.rects) = 4
    /\ result.rects[4].y = 3 /\ result.rects[4].x = 2
    /\ Cells(result.rects[1]) # {}

(***************************************************************************)
(* C18: in every state of the running viewer every tile's requested line   *)
(* count equals the renderer's line count, the one the status bar shows.   *)
(***************************************************************************)
C18_TilesShareLineCount ==
    (Started /\ pc # "done") => \A i \in 1..N : tiles[i].lines = line_count

\* two tiles, after a key that changed the line count and the polls that followed
C18_Witness ==
    /\ N = 2 /\ pc = "getch" /\ rendered
    /\ line_count # initial_lines
    /\ tiles[1].lines = line_count /\ tiles[2].lines = line_count

(***************************************************************************)
(* C19, as claimed: an update() whose stat succeeds and that reads the     *)
(* file leaves the cache equal to the last min(lines, number of lines)     *)
(* lines of the file; and when a file has disappeared (the poll found it   *)
(* missing) and is back, the first update() that stats it re-reads it,     *)
(* reports changed and leaves the cache equal to the file's tail, also     *)
(* when the file has the (modification time, size) it had before.          *)
(***************************************************************************)
C19_CoherentAfterReappearing ==
    [][\A i \in 1..N :
         /\ (UpdateStep(i) /\ FileOf(i).st = "ok" /\ ret')
               => tiles'[i].content = ExpectedTail(FileOf(i).data, tiles[i].lines)
         /\ (UpdateStep(i) /\ lastErr[i] = "stat" /\ FileOf(i).st = "ok")
               => /\ tiles'[i].content = ExpectedTail(FileOf(i).data, tiles[i].lines)
                  /\ FileOf(i).data # <<>> => ret']_vars

TypeOK ==
    /\ pc \in {"setup", "init", "poll", "getch", "refresh", "render", "done", "exit1", "crash"}
    /\ line_count \in MinLines..MaxLines
====
